---- MODULE Spec2Model ----
(***************************************************************************)
(* A model of fsleyes.displaycontext.meshopts.MeshOpts: the display        *)
(* settings of one mesh overlay.  The model follows one child (listener-   *)
(* registering) MeshOpts instance through its life: the overlay list       *)
(* changes under it, its properties are set, vertex data is added and      *)
(* selected, and finally it is destroyed.                                  *)
(*                                                                         *)
(* Python's None is the string "None" (overlays, vertex set names), the    *)
(* key NoKey (vertex data names), the array NoData and the range NoRange.  *)
(***************************************************************************)
EXTENDS Integers, Sequences, FiniteSets, TLC

(***************************************************************************)
(* Bounds of the model.                                                    *)
(***************************************************************************)
\* the most vertex data sets held by the mesh overlay
MaxSets == 3

(***************************************************************************)
(* Helpers.  Only({e : x \in {v}}) is e with x bound to the value of v,    *)
(* which is then computed once however often e uses it.                    *)
(***************************************************************************)
Only(S) == CHOOSE r \in S : TRUE

Abs(x) == IF x < 0 THEN -x ELSE x

RECURSIVE GCD(_, _)
GCD(a0, b0) ==
    Only({IF b = 0 THEN Abs(a) ELSE GCD(b, a % Abs(b)) : a \in {a0}, b \in {b0}})

Range(f) == {f[i] : i \in DOMAIN f}

SetMin(S0) == Only({CHOOSE x \in S : \A y \in S : x <= y : S \in {S0}})
SetMax(S0) == Only({CHOOSE x \in S : \A y \in S : x >= y : S \in {S0}})

(***************************************************************************)
(* fsl.transform.affine: an affine transform p |-> (m p + t) / d, with m a *)
(* 3x3 integer matrix, t an integer vector and d > 0, kept in lowest       *)
(* terms so that equal transforms are equal values.                        *)
(***************************************************************************)
Identity3 == << <<1, 0, 0>>, <<0, 1, 0>>, <<0, 0, 1>> >>

MatMul(a0, b0) ==
    Only({[i \in 1..3 |-> [j \in 1..3 |->
              a[i][1] * b[1][j] + a[i][2] * b[2][j] + a[i][3] * b[3][j]]]
          : a \in {a0}, b \in {b0}})

MatVec(a0, v0) ==
    Only({[i \in 1..3 |-> a[i][1] * v[1] + a[i][2] * v[2] + a[i][3] * v[3]]
          : a \in {a0}, v \in {v0}})

Det3(a0) ==
    Only({  a[1][1] * (a[2][2] * a[3][3] - a[2][3] * a[3][2])
          - a[1][2] * (a[2][1] * a[3][3] - a[2][3] * a[3][1])
          + a[1][3] * (a[2][1] * a[3][2] - a[2][2] * a[3][1])
          : a \in {a0}})

\* the adjugate: Adj3(a) * a = Det3(a) * Identity3
Adj3(a0) ==
    Only({<< << a[2][2] * a[3][3] - a[2][3] * a[3][2],
                a[1][3] * a[3][2] - a[1][2] * a[3][3],
                a[1][2] * a[2][3] - a[1][3] * a[2][2] >>,
             << a[2][3] * a[3][1] - a[2][1] * a[3][3],
                a[1][1] * a[3][3] - a[1][3] * a[3][1],
                a[1][3] * a[2][1] - a[1][1] * a[2][3] >>,
             << a[2][1] * a[3][2] - a[2][2] * a[3][1],
                a[1][2] * a[3][1] - a[1][1] * a[3][2],
                a[1][1] * a[2][2] - a[1][2] * a[2][1] >> >>
          : a \in {a0}})

\* the greatest common divisor of the entries of m and t and of d
Content(m, t, d) ==
    GCD(GCD(GCD(GCD(t[1], t[2]), GCD(t[3], d)),
            GCD(GCD(m[1][1], m[1][2]), GCD(m[1][3], m[2][1]))),
        GCD(GCD(GCD(m[2][2], m[2][3]), GCD(m[3][1], m[3][2])), m[3][3]))

\* m, t and d divided by g
Reduced(m, t, d, g0) ==
    Only({[m |-> [i \in 1..3 |-> [j \in 1..3 |-> m[i][j] \div g]],
           t |-> [i \in 1..3 |-> t[i] \div g],
           d |-> d \div g]
          : g \in {g0}})

Normalise(m0, t0, d0) ==
    Only({Reduced(m, t, d, (IF d < 0 THEN -1 ELSE 1) * Content(m, t, d))
          : m \in {m0}, t \in {t0}, d \in {d0}})

Affine(m, t) == Normalise(m, t, 1)

Eye == Affine(Identity3, <<0, 0, 0>>)

\* affine.concat(a, b): b is applied first, then a
concat(a0, b0) ==
    Only({Normalise(MatMul(a.m, b.m),
                    [i \in 1..3 |-> MatVec(a.m, b.t)[i] + b.d * a.t[i]],
                    a.d * b.d)
          : a \in {a0}, b \in {b0}})

concat3(a, b, c) == concat(a, concat(b, c))

\* affine.invert(a)
invert(a0) ==
    Only({Only({Normalise([i \in 1..3 |-> [j \in 1..3 |-> a.d * adj[i][j]]],
                          [i \in 1..3 |-> -MatVec(adj, a.t)[i]],
                          Det3(a.m))
                : adj \in {Adj3(a.m)}})
          : a \in {a0}})

\* affine.transform of one integer point: its three rational coordinates
\* <<numerator, denominator>>, all over the denominator of the transform
transform(p0, a0) ==
    Only({[i \in 1..3 |-> <<MatVec(a.m, p)[i] + a.t[i], a.d>>]
          : p \in {p0}, a \in {a0}})

RatLeq(x, y) == x[1] * y[2] <= y[1] * x[2]

RatNorm(x0) ==
    Only({Only({<<x[1] \div g, x[2] \div g>> : g \in {GCD(x[1], x[2])}})
          : x \in {x0}})

(***************************************************************************)
(* The overlays.  "mesh" is the Mesh overlay these options belong to,      *)
(* "imgA" and "imgB" are Nifti images.                                     *)
(***************************************************************************)
None == "None"

Overlays == {"mesh", "imgA", "imgB"}

Images == {"imgA", "imgB"}

\* isinstance(overlay, fslimage.Nifti)
IsNifti(o) == o \in Images

\* the overlay lists: an overlay is in the list at most once
OverlayLists ==
    UNION {{q \in [1..n -> Overlays] : \A i, j \in 1..n : i # j => q[i] # q[j]}
           : n \in 0..Cardinality(Overlays)}

(***************************************************************************)
(* The geometry of the two images: voxel sizes, shape and voxel-to-world   *)
(* affine.  imgA has 2mm voxels along x and a voxel-to-world matrix of     *)
(* positive determinant; imgB has unit voxels and a voxel-to-world matrix  *)
(* of negative determinant that swaps the x and y axes.                    *)
(***************************************************************************)
pixdim ==
    [img \in Images |-> IF img = "imgA" THEN <<2, 1, 1>> ELSE <<1, 1, 1>>]

shape ==
    [img \in Images |-> IF img = "imgA" THEN <<2, 2, 2>> ELSE <<2, 3, 2>>]

voxToWorldMat ==
    [img \in Images |->
        IF img = "imgA"
        THEN Affine(<< <<2, 0, 0>>, <<0, 1, 0>>, <<0, 0, 1>> >>, <<1, 0, -1>>)
        ELSE Affine(<< <<0, 1, 0>>, <<1, 0, 0>>, <<0, 0, 1>> >>, <<0, 1, 0>>)]

\* fsl.data.mghimage.voxToSurfMat(img): the Freesurfer "Torig" matrix
voxToSurfMat ==
    [img \in Images |->
        LET z == pixdim[img]
            n == shape[img]
        IN  Normalise(<< <<-2 * z[1], 0, 0>>,
                         <<0, 0, 2 * z[3]>>,
                         <<0, -2 * z[2], 0>> >>,
                      <<n[1] * z[1], -(n[3] * z[3]), n[2] * z[2]>>,
                      2)]

\* Image.getAffine('voxel', 'world') and Image.getAffine('world', 'voxel')
getAffine ==
    [img \in Images |->
        [from_ \in {"voxel", "world"} |-> [to \in {"voxel", "world"} |->
            IF from_ = to THEN Eye
            ELSE IF from_ = "voxel" THEN voxToWorldMat[img]
            ELSE invert(voxToWorldMat[img])]]]

(***************************************************************************)
(* NiftiOpts.getTransform, of the reference image's options.  Every space  *)
(* is given by the transform that takes voxel coordinates into it.         *)
(***************************************************************************)
\* the values of NiftiOpts.transform explored
Transforms == {"affine", "pixdim", "pixdim-flip", "id"}

voxTo ==
    [img \in Images |-> [space \in Transforms |->
        LET z == pixdim[img]
            n == shape[img]
            scale == << <<z[1], 0, 0>>, <<0, z[2], 0>>, <<0, 0, z[3]>> >>
            flip  == << <<-z[1], 0, 0>>, <<0, z[2], 0>>, <<0, 0, z[3]>> >>
        IN  CASE space = "id"     -> Eye
              [] space = "pixdim" -> Affine(scale, <<0, 0, 0>>)
              [] space = "affine" -> voxToWorldMat[img]
              [] OTHER ->
                    IF Det3(voxToWorldMat[img].m) > 0
                    THEN Affine(flip, <<(n[1] - 1) * z[1], 0, 0>>)
                    ELSE Affine(scale, <<0, 0, 0>>)]]

niftiSpace(space, tr) ==
    CASE space = "display" -> tr
      [] space = "world"   -> "affine"
      [] space = "voxel"   -> "id"
      [] OTHER             -> space

\* opts.getTransform(from_, to) of image img whose transform property is tr
niftiGetTransform(img, tr, from_, to) ==
    concat(voxTo[img][niftiSpace(to, tr)],
           invert(voxTo[img][niftiSpace(from_, tr)]))

(***************************************************************************)
(* MeshOpts.normaliseSpace, getTransform and transformCoords, as functions *)
(* of the refImage (ref), the coordSpace (cs) and the transform property   *)
(* of each image's options (tr).                                           *)
(***************************************************************************)
CoordSpaces == {"affine", "pixdim", "pixdim-flip", "id", "torig"}

\* the spaces getTransform and transformCoords accept
Spaces == {"world", "display", "mesh", "voxel", "id"}

normaliseSpace(space, cs) ==
    IF space \notin Spaces THEN "ValueError"
    ELSE LET s1 == IF space = "mesh" THEN cs ELSE space
         IN  IF s1 = "torig" THEN "affine" ELSE s1

\* getTransform asking the display context for the opts of the refImage
\* before it looks whether there is one: with no refImage the lookup raises
getTransformNoNoneCheck(ref, cs, tr, from_, to) ==
    LET nfrom_ == normaliseSpace(from_, cs)
        nto    == normaliseSpace(to, cs)
    IN  IF nfrom_ = "ValueError" \/ nto = "ValueError" \/ ref = None
        THEN [raised |-> TRUE, xform |-> Eye, opts |-> None]
        ELSE LET xform0 == niftiGetTransform(ref, tr[ref], nfrom_, nto)
                 xform1 ==
                    IF from_ = "mesh" /\ cs = "torig"
                    THEN concat3(xform0,
                                 getAffine[ref]["voxel"]["world"],
                                 invert(voxToSurfMat[ref]))
                    ELSE xform0
                 xform2 ==
                    IF to = "mesh" /\ cs = "torig"
                    THEN concat3(voxToSurfMat[ref],
                                 getAffine[ref]["world"]["voxel"],
                                 xform1)
                    ELSE xform1
             IN  [raised |-> FALSE, xform |-> xform2, opts |-> ref]

\* getTransform with the matrices of the 'torig' case concatenated in the
\* opposite order
getTransformWrongOrder(ref, cs, tr, from_, to) ==
    LET nfrom_ == normaliseSpace(from_, cs)
        nto    == normaliseSpace(to, cs)
    IN  IF nfrom_ = "ValueError" \/ nto = "ValueError"
        THEN [raised |-> TRUE, xform |-> Eye, opts |-> None]
        ELSE IF ref = None
        THEN [raised |-> FALSE, xform |-> Eye, opts |-> None]
        ELSE LET xform0 == niftiGetTransform(ref, tr[ref], nfrom_, nto)
                 xform1 ==
                    IF from_ = "mesh" /\ cs = "torig"
                    THEN concat3(invert(voxToSurfMat[ref]),
                                 getAffine[ref]["voxel"]["world"],
                                 xform0)
                    ELSE xform0
                 xform2 ==
                    IF to = "mesh" /\ cs = "torig"
                    THEN concat3(xform1,
                                 getAffine[ref]["world"]["voxel"],
                                 voxToSurfMat[ref])
                    ELSE xform1
             IN  [raised |-> FALSE, xform |-> xform2, opts |-> ref]

\* the result of getTransform: whether it raised, the matrix, and the
\* overlay whose opts the display context was asked for (None: nobody's)
getTransform(ref, cs, tr, from_, to) ==
    LET nfrom_ == normaliseSpace(from_, cs)
        nto    == normaliseSpace(to, cs)
    IN  IF nfrom_ = "ValueError" \/ nto = "ValueError"
        THEN [raised |-> TRUE, xform |-> Eye, opts |-> None]
        ELSE IF ref = None
        THEN [raised |-> FALSE, xform |-> Eye, opts |-> None]
        ELSE LET xform0 == niftiGetTransform(ref, tr[ref], nfrom_, nto)
                 xform1 ==
                    IF from_ = "mesh" /\ cs = "torig"
                    THEN concat3(xform0,
                                 getAffine[ref]["voxel"]["world"],
                                 invert(voxToSurfMat[ref]))
                    ELSE xform0
                 xform2 ==
                    IF to = "mesh" /\ cs = "torig"
                    THEN concat3(voxToSurfMat[ref],
                                 getAffine[ref]["world"]["voxel"],
                                 xform1)
                    ELSE xform1
             IN  [raised |-> FALSE, xform |-> xform2, opts |-> ref]

\* NiftiOpts.transformCoords(coords, from_, to, pre, post): coords goes
\* through pre, the transform from from_ to to, and post
niftiTransformCoords(img, tr, coords, from_, to, pre, post) ==
    transform(coords, concat3(post, niftiGetTransform(img, tr, from_, to), pre))

\* the result of transformCoords of one integer point: the point comes
\* back as it is (same: TRUE) or transformed (coords, rational)
transformCoords(ref, cs, tr, coords, from_, to) ==
    LET nfrom_ == normaliseSpace(from_, cs)
        nto    == normaliseSpace(to, cs)
        asIs   == [i \in 1..3 |-> <<coords[i], 1>>]
    IN  IF nfrom_ = "ValueError" \/ nto = "ValueError"
        THEN [raised |-> TRUE, same |-> FALSE, coords |-> asIs, opts |-> None]
        ELSE IF ref = None
        THEN [raised |-> FALSE, same |-> TRUE, coords |-> asIs, opts |-> None]
        ELSE LET pre ==
                    IF from_ = "mesh" /\ cs = "torig"
                    THEN concat(getAffine[ref]["voxel"]["world"],
                                invert(voxToSurfMat[ref]))
                    ELSE Eye
                 post ==
                    IF to = "mesh" /\ cs = "torig"
                    THEN concat(voxToSurfMat[ref],
                                getAffine[ref]["world"]["voxel"])
                    ELSE Eye
             IN  [raised |-> FALSE, same |-> FALSE,
                  coords |-> niftiTransformCoords(ref, tr[ref], coords,
                                                  nfrom_, nto, pre, post),
                  opts |-> ref]

(***************************************************************************)
(* The mesh overlay: its vertex sets.  "vs1" is loaded with the mesh;      *)
(* "vs2" names a file of vertices that loads; any other name ("vsBad",     *)
(* None) makes Mesh.loadVertices raise.                                    *)
(***************************************************************************)
LoadableVertexFiles == {"vs2"}

\* Mesh.bounds with the given vertex set selected: <<lo, hi>>
meshBounds(vset) ==
    IF vset = "vs1" THEN << <<0, 0, 0>>, <<1, 2, 3>> >>
    ELSE << <<-1, 0, 1>>, <<2, 1, 2>> >>

(***************************************************************************)
(* Vertex data.  A key is a name with the ' [n]' suffixes that             *)
(* addVertexData has appended to it: 'k [1] [2]' is [base |-> "k",         *)
(* suf |-> <<1, 2>>].  An array is its number of dimensions and its rows   *)
(* (one per vertex).                                                       *)
(***************************************************************************)
Key(base, suf) == [base |-> base, suf |-> suf]

NoKey == Key(None, <<>>)

\* '{} [{}]'.format(origKey, count)
format(origKey, count) == Key(origKey.base, Append(origKey.suf, count))

Array(ndim, rows) == [ndim |-> ndim, rows |-> rows]

NoData == Array(0, <<>>)

NoRange == <<>>

\* the list of paths handed to addVertexDataOptions: the file "f1" holds one
\* value per vertex, and the file "fBad" does not load
VertexDataPaths == {<<Key("f1", <<>>), Key("fBad", <<>>)>>}

fileData(path) == Array(1, << <<3>>, <<-2>> >>)

fileLoads(path) == path = Key("f1", <<>>)

\* the arrays handed to addVertexData
NewData == {Array(2, << <<2, 2>>, <<-1, 6>> >>)}

\* the keys handed to addVertexData
NewKeys == {Key("k", <<>>), Key("k", <<1>>)}

values(data) == UNION {Range(data.rows[i]) : i \in DOMAIN data.rows}

\* the range with its ends exchanged
dataRangeSwapped(data) == <<SetMax(values(data)), SetMin(values(data))>>

\* (np.nanmin(vdata), np.nanmax(vdata))
dataRange(data) == <<SetMin(values(data)), SetMax(values(data))>>

(***************************************************************************)
(* The state.                                                              *)
(***************************************************************************)
VARIABLES
    overlays,        \* the overlay list, in the display context's order
    refImage,        \* MeshOpts.refImage
    refChoices,      \* the choices of the refImage property
    oldRefImage,     \* MeshOpts.__oldRefImage
    coordSpace,      \* MeshOpts.coordSpace
    imgTransform,    \* NiftiOpts.transform of each image's options
    bounds,          \* DisplayOpts.bounds: <<xlo, xhi, ylo, yhi, zlo, zhi>>
    lsOverlays,      \* this instance listens to overlayList.overlays
    lsVertices,      \* this instance listens to the mesh's 'vertices' topic
    lsName,          \* overlays whose Display.name this instance listens to
    lsTransform,     \* overlays whose opts.transform this instance listens to
    vertexSet,       \* MeshOpts.vertexSet
    vsChoices,       \* the choices of the vertexSet property
    ovVertexSets,    \* Mesh.vertexSets(): the vertex sets loaded
    ovSelected,      \* Mesh.selectedVertices()
    vertexData,      \* MeshOpts.vertexData
    modulateData,    \* MeshOpts.modulateData
    vdChoices,       \* the choices of the vertexData property
    mdChoices,       \* the choices of the modulateData property
    ovVertexData,    \* the mesh's vertex data sets: key -> array
    vdata,           \* MeshOpts.__vdata
    vdataRange,      \* MeshOpts.__vdataRange
    vertexDataIndex, \* MeshOpts.vertexDataIndex
    indexMaxval,     \* the maxval attribute of vertexDataIndex
    dataRangeUpdate, \* the updateDataRange call of the last operation
                     \* (its three arguments), <<>> if it made none
    destroyed,       \* destroy() has been called
    baseDestroyed,   \* the base classes' destroy() have been called
    last             \* the last operation: its name, inputs and outcome

vars == <<overlays, refImage, refChoices, oldRefImage, coordSpace,
          imgTransform, bounds, lsOverlays, lsVertices, lsName, lsTransform,
          vertexSet, vsChoices, ovVertexSets, ovSelected, vertexData,
          modulateData, vdChoices, mdChoices, ovVertexData, vdata,
          vdataRange, vertexDataIndex, indexMaxval, dataRangeUpdate, destroyed,
          baseDestroyed, last>>

listVars == <<overlays, refImage, refChoices, oldRefImage, coordSpace,
              imgTransform, bounds, lsOverlays, lsVertices, lsName,
              lsTransform, vertexSet, vsChoices, ovVertexSets, ovSelected>>

dataVars == <<vertexData, modulateData, vdChoices, mdChoices, ovVertexData,
              vdata, vdataRange, vertexDataIndex, indexMaxval, dataRangeUpdate>>

\* what an operation records of itself
Last(op) ==
    [op |-> op, prevRef |-> None, failed |-> {}, key |-> NoKey,
     sets |-> [k \in {} |-> NoData], ret |-> NoKey, other |-> NoData, raised |-> FALSE,
     index |-> 0]

(***************************************************************************)
(* The part of the state that the overlay list, reference image, vertex    *)
(* set and bounds handlers work on, as one record: a handler is a function *)
(* from record to record, so that a handler run from within another one    *)
(* (a property set by a handler notifies its listeners at once) composes.  *)
(***************************************************************************)
Cur ==
    [overlays |-> overlays, refImage |-> refImage, refChoices |-> refChoices,
     oldRefImage |-> oldRefImage, coordSpace |-> coordSpace,
     imgTransform |-> imgTransform, bounds |-> bounds,
     lsOverlays |-> lsOverlays, lsVertices |-> lsVertices, lsName |-> lsName,
     lsTransform |-> lsTransform, vertexSet |-> vertexSet,
     vsChoices |-> vsChoices, ovVertexSets |-> ovVertexSets,
     ovSelected |-> ovSelected]

Commit(s) ==
    /\ overlays' = s.overlays
    /\ refImage' = s.refImage
    /\ refChoices' = s.refChoices
    /\ oldRefImage' = s.oldRefImage
    /\ coordSpace' = s.coordSpace
    /\ imgTransform' = s.imgTransform
    /\ bounds' = s.bounds
    /\ lsOverlays' = s.lsOverlays
    /\ lsVertices' = s.lsVertices
    /\ lsName' = s.lsName
    /\ lsTransform' = s.lsTransform
    /\ vertexSet' = s.vertexSet
    /\ vsChoices' = s.vsChoices
    /\ ovVertexSets' = s.ovVertexSets
    /\ ovSelected' = s.ovSelected

RatMin(S0) == Only({CHOOSE x \in S : \A y \in S : RatLeq(x, y) : S \in {S0}})
RatMax(S0) == Only({CHOOSE x \in S : \A y \in S : RatLeq(y, x) : S \in {S0}})

\* list(it.product(*zip(lo, hi))): the eight corners of the box
corners(lo, hi) ==
    {<<x, y, z>> : x \in {lo[1], hi[1]}, y \in {lo[2], hi[2]},
                   z \in {lo[3], hi[3]}}

\* MeshOpts.getTransform for every refImage, coordSpace, transform of the
\* reference image's opts and pair of spaces, computed once
xformTable ==
    [ref \in Images \cup {None} |-> [cs \in CoordSpaces |->
        [t \in Transforms |-> [from_ \in Spaces |-> [to \in Spaces |->
            getTransform(ref, cs, [img \in Images |-> t], from_, to)]]]]]

\* self.getTransform(from_, to) in state s
meshGetTransform(s, from_, to) ==
    xformTable[s.refImage][s.coordSpace]
              [IF s.refImage = None THEN "id" ELSE s.imgTransform[s.refImage]]
              [from_][to]

\* the min and max of every column of the transformed bounding box
minmax(bbox0) ==
    Only({<<RatNorm(RatMin({q[1] : q \in bbox})),
            RatNorm(RatMax({q[1] : q \in bbox})),
            RatNorm(RatMin({q[2] : q \in bbox})),
            RatNorm(RatMax({q[2] : q \in bbox})),
            RatNorm(RatMin({q[3] : q \in bbox})),
            RatNorm(RatMax({q[3] : q \in bbox}))>> : bbox \in {bbox0}})

\* MeshOpts.__updateBounds
updateBounds(s0) ==
    Only({[s EXCEPT !.bounds =
              minmax({transform(c, meshGetTransform(s, "mesh", "display").xform)
                      : c \in corners(meshBounds(s.ovSelected)[1],
                                      meshBounds(s.ovSelected)[2])})]
          : s \in {s0}})

\* MeshOpts.__transformChanged
transformChanged(s) == updateBounds(s)

\* a coordSpace listener that leaves the bounds as they are
coordSpaceChangedSkip(s) == s

\* MeshOpts.__coordSpaceChanged
coordSpaceChanged(s) == updateBounds(s)

\* __refImageChanged without the removal of the listener from the old
\* reference image
refImageChangedKeep(s0) ==
    Only({updateBounds(
            [s EXCEPT
                !.lsTransform =
                    @ \cup (IF s.refImage # None THEN {s.refImage} ELSE {}),
                !.oldRefImage = s.refImage])
          : s \in {s0}})

\* MeshOpts.__refImageChanged
refImageChanged(s0) ==
    Only({updateBounds(
            [s EXCEPT
                !.lsTransform =
                    (IF s.oldRefImage # None /\ s.oldRefImage \in Range(s.overlays)
                     THEN @ \ {s.oldRefImage} ELSE @)
                    \cup (IF s.refImage # None THEN {s.refImage} ELSE {}),
                !.oldRefImage = s.refImage])
          : s \in {s0}})

\* self.refImage = value: the listener runs when the value changes
setRefImage(s0, value) ==
    Only({IF value = s.refImage THEN s
          ELSE refImageChanged([s EXCEPT !.refImage = value])
          : s \in {s0}})

\* the list without the isinstance test: None, then every overlay
imgOptionsAll(s) == <<None>> \o s.overlays

\* the list of __overlayListChanged: None, then the Nifti overlays
imgOptions(s) == <<None>> \o SelectSeq(s.overlays, IsNifti)

\* MeshOpts.__overlayListChanged
overlayListChanged(s0) ==
    Only({IF "mesh" \notin Range(s.overlays)
          THEN [s EXCEPT !.lsOverlays = FALSE]
          ELSE [setRefImage(
                    [s EXCEPT !.lsName = @ \cup (Range(imgOptions(s)) \ {None})],
                    IF s.refImage \in Range(imgOptions(s)) THEN s.refImage
                                                          ELSE None)
                EXCEPT !.refChoices = imgOptions(s)]
          : s \in {s0}})

\* MeshOpts.addVertexSetOptions
addVertexSetOptions(s0, paths) ==
    Only({[s EXCEPT !.vsChoices =
              @ \o SelectSeq(paths, LAMBDA q : q \notin Range(s.vsChoices))]
          : s \in {s0}})

\* MeshOpts.__vertexSetChanged.  Mesh.loadVertices raises for a file that
\* does not load, and the handler ends there; for one that loads it adds
\* and selects the vertices, and the 'vertices' notification finds the
\* vertexSet property already equal to the selection.
vertexSetChanged(s0) ==
    Only({IF s.vertexSet \notin s.ovVertexSets
             /\ s.vertexSet \notin LoadableVertexFiles
          THEN s
          ELSE updateBounds([s EXCEPT
                   !.ovVertexSets = @ \cup {s.vertexSet},
                   !.ovSelected = s.vertexSet])
          : s \in {s0}})

\* self.vertexSet = value
setVertexSet(s0, value) ==
    Only({IF value = s.vertexSet THEN s
          ELSE vertexSetChanged([s EXCEPT !.vertexSet = value])
          : s \in {s0}})

\* MeshOpts.__overlayVerticesChanged
overlayVerticesChanged(s0) ==
    Only({setVertexSet(IF s.ovSelected \notin Range(s.vsChoices)
                       THEN addVertexSetOptions(s, <<s.ovSelected>>)
                       ELSE s,
                       s.ovSelected)
          : s \in {s0}})

(***************************************************************************)
(* destroy().  failed is the set of overlays for which looking up the      *)
(* Display or the opts in the display context raises.                      *)
(***************************************************************************)
\* the body of the loop over the overlay list, for one overlay; the lookups
\* come first, so an overlay whose lookup raises keeps its listeners
destroyOne(s0, overlay) ==
    Only({[s EXCEPT !.lsName = @ \ {overlay},
                    !.lsTransform = IF overlay = s.refImage
                                    THEN @ \ {overlay} ELSE @]
          : s \in {s0}})

RECURSIVE destroyLoop(_, _, _)
destroyLoop(s0, i0, failed) ==
    Only({IF i > Len(s.overlays) THEN s
          ELSE destroyLoop(IF s.overlays[i] \in failed THEN s
                           ELSE destroyOne(s, s.overlays[i]),
                           i + 1, failed)
          : s \in {s0}, i \in {i0}})

\* the loop without the try statement: it ends at the first overlay whose
\* lookup raises
RECURSIVE destroyUntilError(_, _, _)
destroyUntilError(s0, i0, failed) ==
    Only({IF i > Len(s.overlays) \/ s.overlays[i] \in failed THEN s
          ELSE destroyUntilError(destroyOne(s, s.overlays[i]), i + 1, failed)
          : s \in {s0}, i \in {i0}})

\* destroy without the try statement: the first lookup that raises ends it
destroyNoTry(s0, failed) ==
    Only({IF Range(s.overlays) \cap failed = {}
          THEN [s    |-> [destroyUntilError([s EXCEPT !.lsOverlays = FALSE,
                                                      !.lsVertices = FALSE],
                                            1, failed)
                          EXCEPT !.oldRefImage = None],
                base |-> TRUE]
          ELSE [s    |-> destroyUntilError([s EXCEPT !.lsOverlays = FALSE,
                                                     !.lsVertices = FALSE],
                                           1, failed),
                base |-> FALSE]
          : s \in {s0}})

\* MeshOpts.destroy, for an instance that registered its listeners: the
\* record after it, and whether the base classes' destroy were reached
destroy(s0, failed) ==
    Only({[s    |-> [destroyLoop([s EXCEPT !.lsOverlays = FALSE,
                                           !.lsVertices = FALSE], 1, failed)
                     EXCEPT !.oldRefImage = None],
           base |-> TRUE]
          : s \in {s0}})

(***************************************************************************)
(* Vertex data: the handlers work on the record of the vertex data state.  *)
(***************************************************************************)
CurD ==
    [vertexData |-> vertexData, modulateData |-> modulateData,
     vdChoices |-> vdChoices, mdChoices |-> mdChoices,
     ovVertexData |-> ovVertexData,
     vdata |-> vdata, vdataRange |-> vdataRange,
     vertexDataIndex |-> vertexDataIndex, indexMaxval |-> indexMaxval,
     dataRangeUpdate |-> <<>>, raised |-> FALSE]

CommitD(d) ==
    /\ vertexData' = d.vertexData
    /\ modulateData' = d.modulateData
    /\ vdChoices' = d.vdChoices
    /\ mdChoices' = d.mdChoices
    /\ ovVertexData' = d.ovVertexData
    /\ vdata' = d.vdata
    /\ vdataRange' = d.vdataRange
    /\ vertexDataIndex' = d.vertexDataIndex
    /\ indexMaxval' = d.indexMaxval
    /\ dataRangeUpdate' = d.dataRangeUpdate

\* Mesh.vertexDataSets()
vertexDataSets(d) == DOMAIN d.ovVertexData

\* Mesh.addVertexData(key, data)
meshAddVertexData(d0, key, data) ==
    Only({[d EXCEPT !.ovVertexData =
              [k \in DOMAIN @ \cup {key} |-> IF k = key THEN data ELSE @[k]]]
          : d \in {d0}})

\* the try block of __vdataChanged: the data and its range, the overlay's
\* data sets afterwards, and whether an exception was raised in it
loadVertexData(d0, vdfile) ==
    Only({IF vdfile = NoKey
          THEN [raised |-> FALSE, vdata |-> NoData, vdataRange |-> NoRange,
                d |-> d]
          ELSE IF vdfile \notin vertexDataSets(d) /\ ~fileLoads(vdfile)
          THEN [raised |-> TRUE, vdata |-> NoData, vdataRange |-> NoRange,
                d |-> d]
          ELSE Only({[raised |-> FALSE,
                      vdata |-> IF d1.ovVertexData[vdfile].ndim = 1
                                THEN Array(2, d1.ovVertexData[vdfile].rows)
                                ELSE d1.ovVertexData[vdfile],
                      vdataRange |-> dataRange(d1.ovVertexData[vdfile]),
                      d |-> d1]
                     : d1 \in {IF vdfile \notin vertexDataSets(d)
                               THEN meshAddVertexData(d, vdfile, fileData(vdfile))
                               ELSE d}})
          : d \in {d0}})

\* the rest of __vdataChanged, after the try statement
storeVertexData(d0, key, data, range) ==
    Only({[d EXCEPT
              !.vdata[key] = data,
              !.vdataRange[key] = range,
              !.vertexDataIndex = IF key = "vertex" THEN 0 ELSE @,
              !.indexMaxval = IF key = "vertex"
                              THEN (IF data # NoData THEN Len(data.rows[1])
                                                     ELSE 1) - 1
                              ELSE @,
              !.dataRangeUpdate =
                  IF key = "vertex"
                  THEN <<TRUE, TRUE, d.modulateData = NoKey>>
                  ELSE <<FALSE, FALSE, TRUE>>]
          : d \in {d0}})

\* __vdataChanged without the try statement: an error of the load leaves
\* the handler at once
vdataChangedNoTry(d0, value, name) ==
    Only({IF got.raised
          THEN [d0 EXCEPT !.raised = TRUE]
          ELSE storeVertexData(got.d, IF name = "vertexData" THEN "vertex"
                                                             ELSE "modulate",
                               got.vdata, got.vdataRange)
          : got \in {loadVertexData(d0, value)}})

\* MeshOpts.__vdataChanged(value, valid, ctx, name)
vdataChanged(d0, value, name) ==
    Only({IF got.raised
          THEN storeVertexData(d0, IF name = "vertexData" THEN "vertex"
                                                          ELSE "modulate",
                               NoData, NoRange)
          ELSE storeVertexData(got.d, IF name = "vertexData" THEN "vertex"
                                                             ELSE "modulate",
                               got.vdata, got.vdataRange)
          : got \in {loadVertexData(d0, value)}})

\* self.vertexData = value
setVertexData(d0, value) ==
    Only({IF value = d.vertexData THEN d
          ELSE vdataChanged([d EXCEPT !.vertexData = value], value, "vertexData")
          : d \in {d0}})

\* self.modulateData = value
setModulateData(d0, value) ==
    Only({IF value = d.modulateData THEN d
          ELSE vdataChanged([d EXCEPT !.modulateData = value], value,
                            "modulateData")
          : d \in {d0}})

\* MeshOpts.addVertexDataOptions
addVertexDataOptions(d0, paths) ==
    Only({[d0 EXCEPT !.vdChoices = newPaths, !.mdChoices = newPaths]
          : newPaths \in {d0.vdChoices \o
                SelectSeq(paths, LAMBDA q : q \notin Range(d0.vdChoices))}})

\* no loop: the key as it was given
givenKey(key0, origKey, count0, sets) == key0

\* the while loop of addVertexData
RECURSIVE uniqueKey(_, _, _, _)
uniqueKey(key0, origKey, count0, sets) ==
    Only({IF key \in sets
          THEN uniqueKey(format(origKey, count), origKey, count + 1, sets)
          ELSE key
          : key \in {key0}, count \in {count0}})

\* MeshOpts.addVertexData(key, data): the record after it and the key
\* it returns
addVertexData(d0, key, data) ==
    Only({[d   |-> addVertexDataOptions(meshAddVertexData(d0, used, data),
                                        <<used>>),
           ret |-> used]
          : used \in {uniqueKey(key, key, 1, vertexDataSets(d0))}})

\* MeshOpts.getDataRange()
getDataRange ==
    IF vdataRange["vertex"] = NoRange THEN <<0, 1>> ELSE vdataRange["vertex"]

\* MeshOpts.getModulateRange()
getModulateRange == vdataRange["modulate"]

\* MeshOpts.getVertexData(vdtype)
getVertexData(vdtype) == vdata[vdtype]

\* MeshOpts.vertexDataLen()
vertexDataLen ==
    LET v == vdata["vertex"]
    IN  IF v = NoData THEN 0
        ELSE IF v.ndim = 1 THEN 1
        ELSE Len(v.rows[1])

(***************************************************************************)
(* The state after MeshOpts.__init__ of a child instance: the listeners    *)
(* are registered, __overlayListChanged, __updateBounds and                *)
(* __refImageChanged have run, and refImage, if it was None, is what       *)
(* findMeshReferenceImage found (an image of the overlay list, or None).   *)
(***************************************************************************)
InitLists == {<<"mesh">>, <<"imgA", "mesh">>, <<"imgB", "imgA", "mesh">>}

Zero == <<0, 1>>

constructed(ovs, found) ==
    Only({IF s.refImage = None THEN setRefImage(s, found) ELSE s
          : s \in {refImageChanged(updateBounds(overlayListChanged(
              [overlays |-> ovs, refImage |-> None, refChoices |-> <<>>,
               oldRefImage |-> None, coordSpace |-> "pixdim-flip",
               imgTransform |-> [img \in Images |-> "pixdim-flip"],
               bounds |-> <<Zero, Zero, Zero, Zero, Zero, Zero>>,
               lsOverlays |-> TRUE, lsVertices |-> TRUE, lsName |-> {},
               lsTransform |-> {}, vertexSet |-> None,
               vsChoices |-> <<None, "vs1", "vsBad">>, ovVertexSets |-> {"vs1"},
               ovSelected |-> "vs1"])))}})

Init ==
    /\ \E ovs \in InitLists :
         \E found \in {None} \cup (Range(ovs) \cap Images) :
            \E s \in {constructed(ovs, found)} :
                /\ overlays = s.overlays
                /\ refImage = s.refImage
                /\ refChoices = s.refChoices
                /\ oldRefImage = s.oldRefImage
                /\ coordSpace = s.coordSpace
                /\ imgTransform = s.imgTransform
                /\ bounds = s.bounds
                /\ lsOverlays = s.lsOverlays
                /\ lsVertices = s.lsVertices
                /\ lsName = s.lsName
                /\ lsTransform = s.lsTransform
                /\ vertexSet = s.vertexSet
                /\ vsChoices = s.vsChoices
                /\ ovVertexSets = s.ovVertexSets
                /\ ovSelected = s.ovSelected
    /\ vertexData = NoKey
    /\ modulateData = NoKey
    /\ vdChoices = <<NoKey>>
    /\ mdChoices = <<NoKey>>
    /\ ovVertexData = [k \in {} |-> NoData]
    /\ vdata = [k \in {"vertex", "modulate"} |-> NoData]
    /\ vdataRange = [k \in {"vertex", "modulate"} |-> NoRange]
    /\ vertexDataIndex = 0
    /\ indexMaxval = 0
    /\ dataRangeUpdate = <<>>
    /\ destroyed = FALSE
    /\ baseDestroyed = FALSE
    /\ last = Last("init")

\* the instance is in use: not destroyed, its mesh still in the overlay list
Alive == ~destroyed /\ lsOverlays

(***************************************************************************)
(* The overlay list changes (overlays added, removed, reordered).  The     *)
(* display context keeps a Display and opts only for the overlays of the   *)
(* list, so the listeners on those of a removed overlay go with them.      *)
(***************************************************************************)
displayCtxPrune(s0) ==
    Only({[s EXCEPT !.lsName = @ \cap Range(s.overlays),
                    !.lsTransform = @ \cap Range(s.overlays),
                    !.imgTransform = [img \in Images |->
                        IF img \in Range(s.overlays) THEN @[img]
                        ELSE "pixdim-flip"]]
          : s \in {s0}})

OverlayListChange ==
    /\ Alive
    /\ \E ovs \in OverlayLists :
        /\ ovs # overlays
        /\ \E s \in {overlayListChanged(
                       displayCtxPrune([Cur EXCEPT !.overlays = ovs]))} :
              Commit(s)
    /\ last' = [Last("overlays") EXCEPT !.prevRef = refImage]
    /\ UNCHANGED <<dataVars, destroyed, baseDestroyed>>

\* the name of an image's Display changes: __overlayListChanged runs again
DisplayNameChanged ==
    /\ Alive
    /\ lsName # {}
    /\ \E s \in {overlayListChanged(Cur)} : Commit(s)
    /\ last' = [Last("name") EXCEPT !.prevRef = refImage]
    /\ UNCHANGED <<dataVars, destroyed, baseDestroyed>>

SetRefImage ==
    /\ Alive
    /\ \E value \in Range(refChoices) :
        /\ value # refImage
        /\ \E s \in {setRefImage(Cur, value)} : Commit(s)
    /\ last' = [Last("refImage") EXCEPT !.prevRef = refImage]
    /\ UNCHANGED <<dataVars, destroyed, baseDestroyed>>

SetCoordSpace ==
    /\ Alive
    /\ \E value \in CoordSpaces :
        /\ value # coordSpace
        /\ \E s \in {coordSpaceChanged([Cur EXCEPT !.coordSpace = value])} :
              Commit(s)
    /\ last' = Last("coordSpace")
    /\ UNCHANGED <<dataVars, destroyed, baseDestroyed>>

\* the transform property of an image's opts is set; the listener this
\* instance has on it, if any, runs
SetImageTransform ==
    /\ Alive
    /\ \E img \in Range(overlays) \cap Images, value \in Transforms :
        /\ value # imgTransform[img]
        /\ \E s \in {[Cur EXCEPT !.imgTransform[img] = value]} :
              \E s1 \in {IF img \in lsTransform THEN transformChanged(s)
                                                 ELSE s} :
                 Commit(s1)
    /\ last' = Last("transform")
    /\ UNCHANGED <<dataVars, destroyed, baseDestroyed>>

SetVertexSet ==
    /\ Alive
    /\ \E value \in Range(vsChoices) :
        /\ value # vertexSet
        /\ \E s \in {setVertexSet(Cur, value)} : Commit(s)
    /\ last' = Last("vertexSet")
    /\ UNCHANGED <<dataVars, destroyed, baseDestroyed>>

\* somebody else selects (or loads and selects) vertices on the mesh, and
\* the mesh notifies the 'vertices' topic
VerticesSelected ==
    /\ Alive
    /\ lsVertices
    /\ \E vset \in ovVertexSets \cup LoadableVertexFiles :
        /\ vset # ovSelected
        /\ \E s \in {overlayVerticesChanged(
                       [Cur EXCEPT !.ovVertexSets = @ \cup {vset},
                                   !.ovSelected = vset])} :
              Commit(s)
    /\ last' = Last("vertices")
    /\ UNCHANGED <<dataVars, destroyed, baseDestroyed>>

\* destroy(); __vdata becomes None (no dictionary any more)
Destroy ==
    /\ ~destroyed
    /\ \E failed \in SUBSET Range(overlays) :
        \E r \in {destroy(Cur, failed)} :
            /\ Commit(r.s)
            /\ baseDestroyed' = r.base
            /\ last' = [Last("destroy") EXCEPT !.failed = failed,
                                               !.raised = ~r.base]
    /\ destroyed' = TRUE
    /\ vdata' = <<>>
    /\ UNCHANGED <<vertexData, modulateData, vdChoices, mdChoices,
                   ovVertexData, vdataRange, vertexDataIndex, indexMaxval, dataRangeUpdate>>

\* the overlay list, the display names and the reference image change, and
\* the instance is destroyed
NextList ==
    \/ OverlayListChange
    \/ DisplayNameChanged
    \/ SetRefImage
    \/ Destroy

SpecList == Init /\ [][NextList]_vars

\* the overlay list stays as it is; the reference image, the coordinate
\* space, the transform of the images and the vertex set change
NextBounds ==
    \/ SetRefImage
    \/ SetCoordSpace
    \/ SetImageTransform
    \/ SetVertexSet
    \/ VerticesSelected

SpecBounds == Init /\ [][NextBounds]_vars

(***************************************************************************)
(* The vertex data operations.                                             *)
(***************************************************************************)
SetVertexData ==
    /\ Alive
    /\ \E value \in Range(vdChoices) :
        /\ value # vertexData
        /\ \E d \in {setVertexData(CurD, value)} :
               /\ CommitD(d)
               /\ last' = [Last("vertexData") EXCEPT
                              !.key = value,
                              !.sets = ovVertexData,
                              !.other = vdata["modulate"],
                              !.raised = d.raised,
                              !.index = vertexDataIndex]
    /\ UNCHANGED <<listVars, destroyed, baseDestroyed>>

SetModulateData ==
    /\ Alive
    /\ \E value \in Range(mdChoices) :
        /\ value # modulateData
        /\ \E d \in {setModulateData(CurD, value)} :
               /\ CommitD(d)
               /\ last' = [Last("modulateData") EXCEPT
                              !.key = value,
                              !.sets = ovVertexData,
                              !.other = vdata["vertex"],
                              !.raised = d.raised,
                              !.index = vertexDataIndex]
    /\ UNCHANGED <<listVars, destroyed, baseDestroyed>>

SetVertexDataIndex ==
    /\ Alive
    /\ \E value \in 0..indexMaxval :
        /\ value # vertexDataIndex
        /\ vertexDataIndex' = value
    /\ dataRangeUpdate' = <<>>
    /\ last' = Last("vertexDataIndex")
    /\ UNCHANGED <<listVars, destroyed, baseDestroyed, vertexData,
                   modulateData, vdChoices, mdChoices, ovVertexData, vdata,
                   vdataRange, indexMaxval>>

AddVertexDataOptions ==
    /\ Alive
    /\ \E paths \in VertexDataPaths :
        /\ Range(paths) \ Range(vdChoices) # {}
        /\ \E d \in {addVertexDataOptions(CurD, paths)} : CommitD(d)
    /\ last' = Last("vertexDataOptions")
    /\ UNCHANGED <<listVars, destroyed, baseDestroyed>>

AddVertexData ==
    /\ Alive
    /\ Cardinality(DOMAIN ovVertexData) < MaxSets
    /\ \E key \in NewKeys, data \in NewData :
        \E r \in {addVertexData(CurD, key, data)} :
            /\ CommitD(r.d)
            /\ last' = [Last("addVertexData") EXCEPT
                           !.key = key,
                           !.sets = ovVertexData,
                           !.other = data,
                           !.ret = r.ret]
    /\ UNCHANGED <<listVars, destroyed, baseDestroyed>>

NextData ==
    \/ SetVertexData
    \/ SetModulateData
    \/ SetVertexDataIndex
    \/ AddVertexDataOptions
    \/ AddVertexData

\* the vertex data operations do not depend on the overlay list
InitData == Init /\ overlays = <<"mesh">>

SpecData == InitData /\ [][NextData]_vars

(***************************************************************************)
(* The properties.                                                         *)
(***************************************************************************)

\* the place of an overlay in the overlay list
Pos(o) == CHOOSE i \in 1..Len(overlays) : overlays[i] = o

\* C1: after a change of the overlay list (or of the name of an image's
\* Display, which runs the same handler) that leaves the mesh in the list,
\* the choices of refImage are None followed by the Nifti overlays of the
\* list, each once, in the order of the list, and no other overlay; and
\* refImage is what it was if that is still a choice, None otherwise.
C1_RefImageChoices ==
    (last.op \in {"overlays", "name"} /\ "mesh" \in Range(overlays)) =>
        /\ Len(refChoices) = 1 + Cardinality({o \in Range(overlays) : IsNifti(o)})
        /\ refChoices[1] = None
        /\ {refChoices[i] : i \in 2..Len(refChoices)}
               = {o \in Range(overlays) : IsNifti(o)}
        /\ \A i, j \in 2..Len(refChoices) :
               i < j => Pos(refChoices[i]) < Pos(refChoices[j])
        /\ refImage = IF last.prevRef \in Range(refChoices) THEN last.prevRef
                                                           ELSE None

\* the reference image was removed from the list while another image
\* stayed: refImage is None again, and the other image is the only choice
C1_Witness ==
    /\ last.op = "overlays"
    /\ last.prevRef = "imgA"
    /\ overlays = <<"imgB", "mesh">>
    /\ refImage = None
    /\ refChoices = <<None, "imgB">>

\* an image stayed the reference image across a change of the list that
\* changed the order of the images
C1_WitnessKept ==
    /\ last.op = "overlays"
    /\ last.prevRef = "imgB"
    /\ refImage = "imgB"
    /\ refChoices = <<None, "imgA", "imgB">>

\* C2: while the instance is in use it listens to the transform property
\* of the options of the current refImage and of no other image, and of
\* none when refImage is None; after refImage changed from an image A to
\* an image B, the listener is off A's options and on B's.
C2_TransformListener ==
    /\ Alive => lsTransform = (IF refImage = None THEN {} ELSE {refImage})
    /\ (last.op = "refImage" /\ last.prevRef # None /\ refImage # None) =>
           /\ last.prevRef \notin lsTransform
           /\ refImage \in lsTransform

\* refImage went from imgA to imgB, both in the overlay list
C2_Witness ==
    /\ last.op = "refImage"
    /\ last.prevRef = "imgA"
    /\ refImage = "imgB"
    /\ {"imgA", "imgB"} \subseteq Range(overlays)
    /\ lsTransform = {"imgB"}

\* the eight corners of the mesh's bounds in display coordinates
displayCorners ==
    {transform(c, meshGetTransform(Cur, "mesh", "display").xform)
     : c \in corners(meshBounds(ovSelected)[1], meshBounds(ovSelected)[2])}

\* C3: after every change of refImage, coordSpace, the transform of an
\* image's options or the vertex set, bounds is <<xlo, xhi, ylo, yhi, zlo,
\* zhi>> of the axis-aligned box around the eight corners of the mesh's
\* bounds transformed by getTransform('mesh', 'display'): on every axis lo
\* is at most hi, every corner lies between them, and a corner lies on each.
C3_BoundsEncloseCorners ==
    Alive => \A k \in 1..3 :
        /\ RatLeq(bounds[2 * k - 1], bounds[2 * k])
        /\ \A q \in displayCorners :
               RatLeq(bounds[2 * k - 1], q[k]) /\ RatLeq(q[k], bounds[2 * k])
        /\ \E q \in displayCorners :
               RatLeq(q[k], bounds[2 * k - 1])
        /\ \E q \in displayCorners :
               RatLeq(bounds[2 * k], q[k])

\* coordSpace was changed to 'torig' with a reference image whose matrices
\* turn and move the box
C3_Witness ==
    /\ last.op = "coordSpace"
    /\ coordSpace = "torig"
    /\ refImage = "imgB"
    /\ ovSelected = "vs2"
    /\ bounds # <<<<-1, 1>>, <<2, 1>>, <<0, 1>>, <<1, 1>>, <<1, 1>>, <<2, 1>>>>

\* the points handed to transformCoords
SamplePoints == {<<0, 0, 0>>, <<1, -2, 3>>}

\* C7: with no refImage, getTransform gives the identity matrix and
\* transformCoords gives the coordinates back as they are, for every pair
\* of accepted spaces and whatever coordSpace is, and neither asks the
\* display context for the options of an image.
C7_NoRefImageIdentity ==
    refImage = None => \A a, b \in Spaces :
        /\ getTransform(refImage, coordSpace, imgTransform, a, b)
               = [raised |-> FALSE,
                  xform  |-> [m |-> Identity3, t |-> <<0, 0, 0>>, d |-> 1],
                  opts   |-> None]
        /\ \A c \in SamplePoints :
               transformCoords(refImage, coordSpace, imgTransform, c, a, b)
                   = [raised |-> FALSE, same |-> TRUE,
                      coords |-> [i \in 1..3 |-> <<c[i], 1>>], opts |-> None]

\* no refImage, in the 'torig' coordinate space
C7_Witness ==
    /\ refImage = None
    /\ coordSpace = "torig"
    /\ last.op = "coordSpace"

\* getTransform(a, b) of the current state
GT(a, b) == meshGetTransform(Cur, a, b).xform

\* C9: with a refImage, for every coordSpace and every pair of accepted
\* spaces a, b, getTransform(a, b) after getTransform(b, a) is the identity
\* and getTransform('mesh', 'mesh') is the identity; with coordSpace
\* 'torig', world to mesh is the image's world-to-voxel matrix followed by
\* the voxel-to-surface matrix, and mesh to world is their inverses in the
\* opposite order.
C9_RoundTrip ==
    refImage # None =>
        /\ \A a, b \in Spaces :
               /\ ~meshGetTransform(Cur, a, b).raised
               /\ concat(GT(a, b), GT(b, a)) = Eye
        /\ GT("mesh", "mesh") = Eye
        /\ coordSpace = "torig" =>
               /\ GT("world", "mesh")
                      = concat(voxToSurfMat[refImage],
                               getAffine[refImage]["world"]["voxel"])
               /\ GT("mesh", "world")
                      = concat(getAffine[refImage]["voxel"]["world"],
                               invert(voxToSurfMat[refImage]))

\* a reference image in the 'torig' coordinate space, with the mesh not in
\* display coordinates
C9_Witness ==
    /\ refImage = "imgB"
    /\ coordSpace = "torig"
    /\ imgTransform["imgB"] = "pixdim-flip"
    /\ GT("mesh", "display") # Eye
    /\ GT("mesh", "world") # Eye

\* C8: after destroy() the instance listens neither to the overlay list nor
\* to the vertices of the mesh, nor to the name of the Display of any
\* overlay of the list whose lookup did not raise, nor to the transform of
\* the options of refImage unless its lookup raised; and the destroy of
\* the base classes was called, whichever lookups raised.
C8_DestroyRemovesListeners ==
    destroyed =>
        /\ ~lsOverlays
        /\ ~lsVertices
        /\ \A o \in Range(overlays) \ last.failed : o \notin lsName
        /\ refImage \notin last.failed => refImage \notin lsTransform
        /\ baseDestroyed

\* the lookup raised for the first overlay of the list, and the listeners
\* on the second one, the reference image, are gone all the same
C8_Witness ==
    /\ destroyed
    /\ overlays = <<"imgB", "imgA", "mesh">>
    /\ last.failed = {"imgB"}
    /\ refImage = "imgA"
    /\ lsName = {"imgB"}
    /\ lsTransform = {}
    /\ baseDestroyed

\* r is <<the least, the greatest>> of the values of data
IsMinMax(r, data) ==
    /\ r[1] \in values(data)
    /\ r[2] \in values(data)
    /\ \A v \in values(data) : r[1] <= v /\ v <= r[2]

\* C4: addVertexData returns a key the mesh had no data under: the key it
\* was given if that was unused, otherwise the first unused one of
\* '<key> [1]', '<key> [2]', ...; the data is on the mesh under the key
\* returned, which is a choice of vertexData and of modulateData; and every
\* data set the mesh had is still there, unchanged.
C4_AddVertexDataUnique ==
    last.op = "addVertexData" =>
        /\ last.ret \notin DOMAIN last.sets
        /\ last.key \notin DOMAIN last.sets => last.ret = last.key
        /\ last.key \in DOMAIN last.sets =>
               \E n \in 1..(MaxSets + 1) :
                   /\ last.ret = Key(last.key.base, last.key.suf \o <<n>>)
                   /\ \A m \in 1..(n - 1) :
                          Key(last.key.base, last.key.suf \o <<m>>)
                              \in DOMAIN last.sets
        /\ DOMAIN ovVertexData = DOMAIN last.sets \cup {last.ret}
        /\ ovVertexData[last.ret] = last.other
        /\ \E i \in 1..Len(vdChoices) : vdChoices[i] = last.ret
        /\ \E i \in 1..Len(mdChoices) : mdChoices[i] = last.ret
        /\ \A k \in DOMAIN last.sets : ovVertexData[k] = last.sets[k]

\* the key given and its first variant were taken: the second is returned
C4_Witness ==
    /\ last.op = "addVertexData"
    /\ last.key = Key("k", <<>>)
    /\ {Key("k", <<>>), Key("k", <<1>>)} \subseteq DOMAIN last.sets
    /\ last.ret = Key("k", <<2>>)

C5_WitnessNone ==
    /\ last.op = "vertexData"
    /\ vertexData = NoKey
    /\ last.index > 0
    /\ getDataRange = <<0, 1>>

\* the last operation selected a file that does not load
LoadFailed ==
    /\ last.op \in {"vertexData", "modulateData"}
    /\ last.key # NoKey
    /\ last.key \notin DOMAIN last.sets
    /\ ~fileLoads(last.key)

\* C6: when the file selected by vertexData or modulateData does not load,
\* no error leaves the handler; the data and the range kept for that
\* property are None (for vertexData: getVertexData() is None,
\* getDataRange() is (0, 1), vertexDataLen() is 0), the data kept for the
\* other property is what it was, vertexDataIndex is reset (for
\* vertexData) and updateDataRange is called.
C6_LoadErrorContained ==
    LoadFailed =>
        /\ ~last.raised
        /\ last.op = "vertexData" =>
               /\ vertexData = last.key
               /\ getVertexData("vertex") = NoData
               /\ vdataRange["vertex"] = NoRange
               /\ getDataRange = <<0, 1>>
               /\ vertexDataLen = 0
               /\ getVertexData("modulate") = last.other
               /\ vertexDataIndex = 0
               /\ indexMaxval = 0
               /\ dataRangeUpdate = <<TRUE, TRUE, modulateData = NoKey>>
        /\ last.op = "modulateData" =>
               /\ modulateData = last.key
               /\ getVertexData("modulate") = NoData
               /\ getModulateRange = NoRange
               /\ getVertexData("vertex") = last.other
               /\ dataRangeUpdate = <<FALSE, FALSE, TRUE>>

\* a file that does not load was selected as vertexData while data with
\* two points per vertex was shown at index 1, with modulate data loaded
C6_Witness ==
    /\ LoadFailed
    /\ last.op = "vertexData"
    /\ last.index > 0
    /\ vertexDataIndex = 0
    /\ getVertexData("modulate") # NoData

\* a file that does not load was selected as modulateData, with vertex
\* data loaded
C6_WitnessModulate ==
    /\ LoadFailed
    /\ last.op = "modulateData"
    /\ getVertexData("vertex") # NoData
====
